---- MODULE Spec2Model ----
(***************************************************************************)
(* Model of wtransport/src/config.rs: the typestate builders of            *)
(* ServerConfig and ClientConfig, the bind-policy table, the idle-timeout  *)
(* conversion, the TLS configuration factories, and the default            *)
(* (Tokio) DNS resolver with its Resolve future.                           *)
(*                                                                         *)
(* Five specifications share the module:                                   *)
(*   Spec         one builder chain (server or client) from builder() to   *)
(*                the built Config, an Err, or a panic;                    *)
(*   SpecDns      one TokioDnsResolver, the Resolve handles a caller       *)
(*                creates on it, and the OS lookups its futures start;     *)
(*   SpecDnsLive  SpecDns with a caller that keeps polling and lookups     *)
(*                that complete;                                           *)
(*   SpecCert     native_cert_store statement by statement, called from    *)
(*                two threads that share SSL_CERT_FILE;                    *)
(*   SpecConfig   Spec followed by the caller's use of quic_config_mut on  *)
(*                the built Config.                                        *)
(***************************************************************************)
EXTENDS Integers, Sequences, FiniteSets, TLC

VARIABLES
    builder,    \* the value the caller holds in the builder chain (typestate record)
    env,        \* the process environment variable SSL_CERT_FILE: Option<OsString>
    ops,        \* history: how many bind / credential / build operations ran
    bindOp,     \* history: the bind operation that ran, with its arguments
    credOp,     \* history: the credential operation that ran, with its arguments
    called,     \* history: the tuning operations called so far
    tuned,      \* history: the argument of the last successful call of each tuning operation
    last,       \* history: the operation of the last step, its argument and outcome
    fut,        \* TokioDnsResolver.fut: the memoized lookup future
    lookups,    \* the OS lookups started so far (tokio::net::lookup_host calls)
    handle,     \* the Resolve future the caller holds on the resolver
    polls,      \* history: outcome of every poll made on the resolver, in order
    requests,   \* history: number of Resolve handles created so far
    pc,         \* per thread: its position in ClientConfigBuilder::native_cert_store
    saved,      \* per thread: the local `value` of remove_var_tmp (env::var_os result)
    var_restore_guard, \* per thread: the VarRestoreGuard it holds (_var_restore_guard)
    store,      \* per thread: the RootCertStore native_cert_store returned
    restores,   \* history, per thread: how many times its guard's drop ran
    env0        \* history: SSL_CERT_FILE before any operation ran

buildVars == <<builder, env, ops, bindOp, credOp, called, tuned, last>>
dnsVars == <<fut, lookups, handle, polls, requests>>
certVars == <<pc, saved, var_restore_guard, store, restores, env0>>
vars == <<builder, env, ops, bindOp, credOp, called, tuned, last,
          fut, lookups, handle, polls, requests,
          pc, saved, var_restore_guard, store, restores, env0>>

(***************************************************************************)
(* Option and Result                                                       *)
(***************************************************************************)
None == [some |-> FALSE]
Some(v) == [some |-> TRUE, val |-> v]
Ok(v) == [ok |-> TRUE, val |-> v]
Err(e) == [ok |-> FALSE, err |-> e]

(***************************************************************************)
(* IP addresses and socket addresses                                       *)
(***************************************************************************)
Ipv4Addr_LOCALHOST == [v |-> "V4", ip |-> "127.0.0.1"]
Ipv4Addr_UNSPECIFIED == [v |-> "V4", ip |-> "0.0.0.0"]
Ipv6Addr_LOCALHOST == [v |-> "V6", ip |-> "::1"]
Ipv6Addr_UNSPECIFIED == [v |-> "V6", ip |-> "::"]

\* SocketAddr::new(ip, port): a V6 address gets flowinfo 0 and scope id 0.
SocketAddrNew(ip, port) ==
    IF ip.v = "V4"
    THEN [ip |-> ip, port |-> port]
    ELSE [ip |-> ip, port |-> port, flowinfo |-> 0, scope_id |-> 0]

\* SocketAddrV6::new(ip, port, flowinfo, scope_id), then .into() a SocketAddr.
SocketAddrV6New(ip, port, flowinfo, scope_id) ==
    [ip |-> ip, port |-> port, flowinfo |-> flowinfo, scope_id |-> scope_id]

IpBindConfig ==
    {"LocalV4", "LocalV6", "LocalDual", "InAddrAnyV4", "InAddrAnyV6", "InAddrAnyDual"}

Ipv6DualStackConfig == {"OsDefault", "Deny", "Allow"}

into_ip(c) ==
    CASE c = "LocalV4" -> Ipv4Addr_LOCALHOST
      [] c = "LocalV6" -> Ipv6Addr_LOCALHOST
      [] c = "LocalDual" -> Ipv6Addr_LOCALHOST
      [] c = "InAddrAnyV4" -> Ipv4Addr_UNSPECIFIED
      [] c = "InAddrAnyV6" -> Ipv6Addr_UNSPECIFIED
      [] c = "InAddrAnyDual" -> Ipv6Addr_UNSPECIFIED

into_dual_stack_config_Swapped(c) ==
    CASE c \in {"LocalV4", "InAddrAnyV4"} -> "OsDefault"
      [] c \in {"LocalV6", "InAddrAnyV6"} -> "Allow"
      [] c \in {"LocalDual", "InAddrAnyDual"} -> "Deny"

into_dual_stack_config(c) ==
    CASE c \in {"LocalV4", "InAddrAnyV4"} -> "OsDefault"
      [] c \in {"LocalV6", "InAddrAnyV6"} -> "Deny"
      [] c \in {"LocalDual", "InAddrAnyDual"} -> "Allow"

(***************************************************************************)
(* Inputs the caller may pass                                              *)
(***************************************************************************)
Ports == {0, 443}

\* Addresses passed to with_bind_address (any family).
BindAddresses ==
    {SocketAddrNew(Ipv4Addr_LOCALHOST, 443), SocketAddrNew(Ipv6Addr_LOCALHOST, 443)}

\* Addresses passed to with_bind_address_v6.
BindAddressesV6 == {SocketAddrV6New(Ipv6Addr_UNSPECIFIED, 443, 0, 0)}

(***************************************************************************)
(* Durations and the idle-timeout encoding                                 *)
(*                                                                         *)
(* A Duration is written as its whole milliseconds plus the nanoseconds    *)
(* below one millisecond.  The milliseconds are a base-2^30 number of      *)
(* three limbs, e60 * 2^60 + e30 * 2^30 + e0, so that values around the    *)
(* 62-bit limit of quinn's VarInt keep their exact magnitude.              *)
(***************************************************************************)
LimbMax == 1073741823

Millis(e60, e30, e0) == [e60 |-> e60, e30 |-> e30, e0 |-> e0]

Duration(millis, subms_nanos) == [millis |-> millis, subms_nanos |-> subms_nanos]

\* Duration::as_millis(): whole milliseconds, the remainder is dropped.
as_millis(d) == d.millis

\* VarInt::try_from(u128): Ok below 2^62 = 4 * 2^60, else VarIntBoundsExceeded.
VarIntTryFrom_OffByLimb(m) ==
    IF m.e60 < 5 THEN Ok(m) ELSE Err("VarIntBoundsExceeded")

VarIntTryFrom(m) ==
    IF m.e60 < 4 THEN Ok(m) ELSE Err("VarIntBoundsExceeded")

\* quinn::IdleTimeout::try_from(Duration) == VarInt::try_from(timeout.as_millis())
IdleTimeoutTryFrom(d) == VarIntTryFrom(as_millis(d))

D_1500us == Duration(Millis(0, 0, 1), 500000)
D_10s == Duration(Millis(0, 0, 10000), 0)
D_VarIntMax == Duration(Millis(3, LimbMax, LimbMax), 0)
D_VarIntOver == Duration(Millis(4, 0, 0), 0)

Durations == {D_1500us, D_10s, D_VarIntMax, D_VarIntOver}
IdleTimeoutArgs == {None} \cup {Some(d) : d \in Durations}
KeepAliveArgs == {None, Some(D_1500us), Some(D_10s)}

\* quinn::TransportConfig::default(): a 10 s idle timeout, no keep-alive.
QUINN_DEFAULT_MAX_IDLE_TIMEOUT_MS == 10000

TransportConfigDefault ==
    [max_idle_timeout |-> Some(Millis(0, 0, QUINN_DEFAULT_MAX_IDLE_TIMEOUT_MS)),
     keep_alive_interval |-> None]

(***************************************************************************)
(* TLS configurations                                                      *)
(***************************************************************************)
\* wtransport_proto::WEBTRANSPORT_ALPN, the one protocol token of this transport.
WEBTRANSPORT_ALPN == "WEBTRANSPORT_ALPN"

\* Certificates the caller may pass to with_certificate: the chain/key pair
\* is accepted by rustls's with_single_cert, or it is not.
Certificates ==
    {[certificates |-> <<"leaf">>, private_key |-> "key", key_ok |-> TRUE],
     [certificates |-> <<"leaf">>, private_key |-> "bad", key_ok |-> FALSE]}

\* rustls::ServerConfig values the caller may pass to server with_custom_tls.
CustomTlsServerConfigs ==
    {[cert_chain |-> <<"custom">>, private_key |-> "custom", client_auth |-> "NoClientAuth",
      alpn_protocols |-> a] : a \in {<< >>, <<WEBTRANSPORT_ALPN>>}}

\* rustls::ClientConfig values the caller may pass to client with_custom_tls.
CustomTlsClientConfigs ==
    {[root_store |-> {"custom_ca"}, verifier |-> "WebPkiVerifier", client_auth |-> "NoClientAuth",
      alpn_protocols |-> a, key_log |-> "NoKeyLog"] : a \in {<< >>, <<WEBTRANSPORT_ALPN>>}}

\* Outcomes of rustls_native_certs::load_native_certs().
NativeLoads == {Ok(<< >>), Ok(<<"ca1", "ca2">>), Err("io")}

\* ServerConfigBuilder::build_tls_config: Err stands for the panic of expect().
ServerBuildTlsConfig_NoAlpn(certificate) ==
    IF certificate.key_ok
    THEN Ok([cert_chain |-> certificate.certificates,
             private_key |-> certificate.private_key,
             client_auth |-> "NoClientAuth",
             alpn_protocols |-> << >>])
    ELSE Err("Certificate and private key should be already validated")

ServerBuildTlsConfig(certificate) ==
    IF certificate.key_ok
    THEN Ok([cert_chain |-> certificate.certificates,
             private_key |-> certificate.private_key,
             client_auth |-> "NoClientAuth",
             alpn_protocols |-> <<WEBTRANSPORT_ALPN>>])
    ELSE Err("Certificate and private key should be already validated")

\* ClientConfigBuilder::build_tls_config
ClientBuildTlsConfig(root_store) ==
    [root_store |-> root_store,
     verifier |-> "WebPkiVerifier",
     client_auth |-> "NoClientAuth",
     alpn_protocols |-> <<WEBTRANSPORT_ALPN>>,
     key_log |-> "NoKeyLog"]

(***************************************************************************)
(* utils: scoped removal of an environment variable                        *)
(***************************************************************************)
\* env::var_os(key) and env::remove_var(key) on the variable's state e.
EnvVarOs(e) == e
EnvRemoveVar_Keeps(e) == e
EnvRemoveVar(e) == None

\* VarRestoreGuard { key, value }
VarRestoreGuard(value) == [key |-> "SSL_CERT_FILE", value |-> value]

\* remove_var_tmp: reads the variable, removes it, returns the guard.
RemoveVarTmp(e) == [env |-> EnvRemoveVar(e), guard |-> VarRestoreGuard(EnvVarOs(e))]

\* VarRestoreGuard::drop: sets the variable again when a value was saved.
VarRestoreGuardDrop_Never(guard, e) == e

VarRestoreGuardDrop_AlwaysSets(guard, e) ==
    IF guard.value.some THEN guard.value ELSE Some("")

VarRestoreGuardDrop(guard, e) == IF guard.value.some THEN guard.value ELSE e

\* The RootCertStore native_cert_store fills from a load outcome: the loaded
\* certificates, or nothing when the load failed.
RootStoreOf(load) == IF load.ok THEN {load.val[i] : i \in 1..Len(load.val)} ELSE {}

\* ClientConfigBuilder::native_cert_store run to completion by one thread:
\* the store it returns and the environment it leaves.
NativeCertStore(e, load) ==
    LET removed == RemoveVarTmp(e)
        root_store == RootStoreOf(load)
    IN [root_store |-> root_store,
        env |-> VarRestoreGuardDrop(removed.guard, removed.env)]

(***************************************************************************)
(* ServerConfigBuilder                                                     *)
(***************************************************************************)
\* impl Default for ServerConfigBuilder<WantsBindAddress>
ServerConfigBuilderDefault == [kind |-> "ServerConfigBuilder", state |-> "WantsBindAddress"]

\* The impl block an operation belongs to: the builder's kind and typestate.
InState(b, kind, state) == b.kind = kind /\ b.state = state

ServerWithBindAddress_SkipsStage(b, address) ==
    [kind |-> "ServerConfigBuilder", state |-> "WantsTransportConfigServer",
     bind_address |-> address, dual_stack_config |-> "OsDefault"]

ServerWithBindAddress(b, address) ==
    [kind |-> "ServerConfigBuilder", state |-> "WantsCertificate",
     bind_address |-> address, dual_stack_config |-> "OsDefault"]

ServerWithBindAddressV6(b, address, dual_stack_config) ==
    [kind |-> "ServerConfigBuilder", state |-> "WantsCertificate",
     bind_address |-> address, dual_stack_config |-> dual_stack_config]

ServerWithBindConfig_DropsPolicy(b, ip_bind_config, listening_port) ==
    ServerWithBindAddress(b, SocketAddrNew(into_ip(ip_bind_config), listening_port))

ServerWithBindConfig(b, ip_bind_config, listening_port) ==
    LET ip_address == into_ip(ip_bind_config)
    IN IF ip_address.v = "V4"
       THEN ServerWithBindAddress(b, SocketAddrNew(ip_address, listening_port))
       ELSE ServerWithBindAddressV6(b, SocketAddrV6New(ip_address, listening_port, 0, 0),
                                    into_dual_stack_config(ip_bind_config))

ServerWithBindDefault(b, listening_port) ==
    ServerWithBindConfig(b, "InAddrAnyDual", listening_port)

ServerWithCustomTls(b, tls_config) ==
    [kind |-> "ServerConfigBuilder", state |-> "WantsTransportConfigServer",
     bind_address |-> b.bind_address,
     dual_stack_config |-> b.dual_stack_config,
     tls_config |-> tls_config,
     transport_config |-> TransportConfigDefault,
     migration |-> TRUE]

\* with_certificate: Err when build_tls_config panics.
ServerWithCertificate_Recovers(b, certificate) ==
    LET tls == ServerBuildTlsConfig(certificate)
    IN IF tls.ok
       THEN Ok(ServerWithCustomTls(b, tls.val))
       ELSE Ok(ServerWithCustomTls(b, [cert_chain |-> << >>,
                                       private_key |-> certificate.private_key,
                                       client_auth |-> "NoClientAuth",
                                       alpn_protocols |-> <<WEBTRANSPORT_ALPN>>]))

ServerWithCertificate(b, certificate) ==
    LET tls == ServerBuildTlsConfig(certificate)
    IN IF tls.ok THEN Ok(ServerWithCustomTls(b, tls.val)) ELSE tls

\* The Option<Duration> -> Result<Option<IdleTimeout>, InvalidIdleTimeout> chain
\* of max_idle_timeout: map(try_from), transpose, map_err.
ConvertIdleTimeout(idle_timeout) ==
    IF ~idle_timeout.some
    THEN Ok(None)
    ELSE LET r == IdleTimeoutTryFrom(idle_timeout.val)
         IN IF r.ok THEN Ok(Some(r.val)) ELSE Err("InvalidIdleTimeout")

ServerMaxIdleTimeout_NoneIsNoOp(b, idle_timeout) ==
    LET r == ConvertIdleTimeout(idle_timeout)
    IN IF r.ok
       THEN Ok(IF r.val.some THEN [b EXCEPT !.transport_config.max_idle_timeout = r.val] ELSE b)
       ELSE r

\* max_idle_timeout takes the builder by value: Ok(self) or Err(InvalidIdleTimeout).
ServerMaxIdleTimeout(b, idle_timeout) ==
    LET r == ConvertIdleTimeout(idle_timeout)
    IN IF r.ok
       THEN Ok([b EXCEPT !.transport_config.max_idle_timeout = r.val])
       ELSE r

ServerKeepAliveInterval_ResetsIdle(b, interval) ==
    [b EXCEPT !.transport_config.keep_alive_interval = interval,
              !.transport_config.max_idle_timeout = TransportConfigDefault.max_idle_timeout]

ServerKeepAliveInterval(b, interval) ==
    [b EXCEPT !.transport_config.keep_alive_interval = interval]

ServerAllowMigration_ForcesDualStack(b, value) ==
    [b EXCEPT !.migration = value,
              !.dual_stack_config = IF value THEN "Allow" ELSE @]

ServerAllowMigration(b, value) == [b EXCEPT !.migration = value]

ServerBuild(b) ==
    [kind |-> "ServerConfig", state |-> "Built",
     bind_address |-> b.bind_address,
     dual_stack_config |-> b.dual_stack_config,
     quic_config |-> [crypto |-> b.tls_config,
                      transport |-> b.transport_config,
                      migration |-> b.migration]]

(***************************************************************************)
(* ClientConfigBuilder                                                     *)
(***************************************************************************)
\* impl Default for ClientConfigBuilder<WantsBindAddress>
ClientConfigBuilderDefault == [kind |-> "ClientConfigBuilder", state |-> "WantsBindAddress"]

\* Box::<TokioDnsResolver>::default(): no memoized future.
TokioDnsResolverDefault == [type |-> "TokioDnsResolver", fut |-> None]

\* Resolvers the caller may pass to dns_resolver.
DnsResolverArgs == {TokioDnsResolverDefault, [type |-> "CustomDnsResolver"]}

ClientWithBindAddress_PolicyByFamily(b, address) ==
    [kind |-> "ClientConfigBuilder", state |-> "WantsRootStore",
     bind_address |-> address,
     dual_stack_config |-> IF address.ip.v = "V6" THEN "Deny" ELSE "OsDefault"]

ClientWithBindAddress(b, address) ==
    [kind |-> "ClientConfigBuilder", state |-> "WantsRootStore",
     bind_address |-> address, dual_stack_config |-> "OsDefault"]

ClientWithBindAddressV6(b, address, dual_stack_config) ==
    [kind |-> "ClientConfigBuilder", state |-> "WantsRootStore",
     bind_address |-> address, dual_stack_config |-> dual_stack_config]

ClientWithBindConfig(b, ip_bind_config) ==
    LET ip_address == into_ip(ip_bind_config)
    IN IF ip_address.v = "V4"
       THEN ClientWithBindAddress(b, SocketAddrNew(ip_address, 0))
       ELSE ClientWithBindAddressV6(b, SocketAddrV6New(ip_address, 0, 0, 0),
                                    into_dual_stack_config(ip_bind_config))

ClientWithBindDefault_LocalDual(b) == ClientWithBindConfig(b, "LocalDual")

ClientWithBindDefault(b) == ClientWithBindConfig(b, "InAddrAnyDual")

ClientWithCustomTls(b, tls_config) ==
    [kind |-> "ClientConfigBuilder", state |-> "WantsTransportConfigClient",
     bind_address |-> b.bind_address,
     dual_stack_config |-> b.dual_stack_config,
     tls_config |-> tls_config,
     transport_config |-> TransportConfigDefault,
     dns_resolver |-> TokioDnsResolverDefault]

\* with_native_certs, given the environment and the outcome of the native load.
ClientWithNativeCerts_FallbackRoots(b, e, load) ==
    ClientWithCustomTls(b, ClientBuildTlsConfig(IF load.ok
                                                THEN NativeCertStore(e, load).root_store
                                                ELSE {"fallback_ca"}))

ClientWithNativeCerts(b, e, load) ==
    ClientWithCustomTls(b, ClientBuildTlsConfig(NativeCertStore(e, load).root_store))

ClientWithNoCertValidation_KeepsAlive(b) ==
    LET tls_config == [ClientBuildTlsConfig({}) EXCEPT !.verifier = "NoServerVerification"]
    IN [kind |-> "ClientConfigBuilder", state |-> "WantsTransportConfigClient",
        bind_address |-> b.bind_address,
        dual_stack_config |-> b.dual_stack_config,
        tls_config |-> tls_config,
        transport_config |-> [TransportConfigDefault EXCEPT !.keep_alive_interval = Some(D_10s)],
        dns_resolver |-> TokioDnsResolverDefault]

ClientWithNoCertValidation(b) ==
    LET tls_config == [ClientBuildTlsConfig({}) EXCEPT !.verifier = "NoServerVerification"]
    IN [kind |-> "ClientConfigBuilder", state |-> "WantsTransportConfigClient",
        bind_address |-> b.bind_address,
        dual_stack_config |-> b.dual_stack_config,
        tls_config |-> tls_config,
        transport_config |-> TransportConfigDefault,
        dns_resolver |-> TokioDnsResolverDefault]

ClientMaxIdleTimeout_SetsOnError(b, idle_timeout) ==
    LET r == ConvertIdleTimeout(idle_timeout)
    IN IF r.ok
       THEN Ok([b EXCEPT !.transport_config.max_idle_timeout = r.val])
       ELSE Ok([b EXCEPT !.transport_config.max_idle_timeout = None])

ClientMaxIdleTimeout(b, idle_timeout) ==
    LET r == ConvertIdleTimeout(idle_timeout)
    IN IF r.ok
       THEN Ok([b EXCEPT !.transport_config.max_idle_timeout = r.val])
       ELSE r

ClientKeepAliveInterval(b, interval) ==
    [b EXCEPT !.transport_config.keep_alive_interval = interval]

ClientDnsResolver(b, dns_resolver) == [b EXCEPT !.dns_resolver = dns_resolver]

ClientEnableKeyLog_ResetsVerifier(b) ==
    [b EXCEPT !.tls_config.key_log = "KeyLogFile", !.tls_config.verifier = "WebPkiVerifier"]

ClientEnableKeyLog(b) == [b EXCEPT !.tls_config.key_log = "KeyLogFile"]

ClientBuild_DefaultResolver(b) ==
    [kind |-> "ClientConfig", state |-> "Built",
     bind_address |-> b.bind_address,
     dual_stack_config |-> b.dual_stack_config,
     quic_config |-> [crypto |-> b.tls_config, transport |-> b.transport_config],
     dns_resolver |-> TokioDnsResolverDefault]

ClientBuild(b) ==
    [kind |-> "ClientConfig", state |-> "Built",
     bind_address |-> b.bind_address,
     dual_stack_config |-> b.dual_stack_config,
     quic_config |-> [crypto |-> b.tls_config, transport |-> b.transport_config],
     dns_resolver |-> b.dns_resolver]

\* impl Default for ClientConfig
ClientConfigDefault(e, load) ==
    ClientBuild(ClientWithNativeCerts(ClientWithBindDefault(ClientConfigBuilderDefault), e, load))

(***************************************************************************)
(* The builder chain as a state machine                                    *)
(***************************************************************************)
\* What the caller holds after a panic, and after max_idle_timeout returned Err.
Panicked == [kind |-> "Panic", state |-> "Panic"]
ErrInvalidIdleTimeout == [kind |-> "Err", state |-> "InvalidIdleTimeout"]

NoOps == [bind |-> 0, cred |-> 0, build |-> 0]
NotTuned ==
    [max_idle_timeout |-> None, keep_alive_interval |-> None,
     allow_migration |-> None, dns_resolver |-> None]
Last(op, arg, result) == [op |-> op, arg |-> arg, result |-> result]

InitDns ==
    /\ fut = None
    /\ lookups = << >>
    /\ handle = None
    /\ polls = << >>
    /\ requests = 0

\* The threads that may call native_cert_store at the same time.
Threads == {"t1", "t2"}

InitCert ==
    /\ pc = [t \in Threads |-> "idle"]
    /\ saved = [t \in Threads |-> None]
    /\ var_restore_guard = [t \in Threads |-> None]
    /\ store = [t \in Threads |-> {}]
    /\ restores = [t \in Threads |-> 0]
    /\ env0 = env

InitBuilder ==
    /\ ops = NoOps
    /\ bindOp = None
    /\ credOp = None
    /\ called = {}
    /\ tuned = NotTuned
    /\ last = Last("builder", None, "Ok")

Init ==
    /\ builder \in {ServerConfigBuilderDefault, ClientConfigBuilderDefault}
    /\ env \in {None, Some("X")}
    /\ InitBuilder
    /\ InitDns
    /\ InitCert

\* A bind operation: WantsBindAddress -> WantsCertificate / WantsRootStore.
Bound(next, op) ==
    /\ builder' = next
    /\ ops' = [ops EXCEPT !.bind = @ + 1]
    /\ bindOp' = Some(op)
    /\ last' = Last(op.op, None, "Ok")
    /\ UNCHANGED <<env, credOp, called, tuned>>

\* A credential operation: -> WantsTransportConfigServer / ...Client, or a panic.
Credentialed(next, op, result) ==
    /\ builder' = next
    /\ ops' = [ops EXCEPT !.cred = @ + 1]
    /\ credOp' = Some(op)
    /\ last' = Last(op.op, None, result)
    /\ UNCHANGED <<bindOp, called, tuned>>

\* A tuning operation: the builder stays in its stage.
Tuned(next, op, arg, result) ==
    /\ builder' = next
    /\ called' = called \cup {op}
    /\ last' = Last(op, arg, result)
    /\ UNCHANGED <<env, ops, bindOp, credOp>>

Built(next) ==
    /\ builder' = next
    /\ ops' = [ops EXCEPT !.build = @ + 1]
    /\ last' = Last("build", None, "Ok")
    /\ UNCHANGED <<env, bindOp, credOp, called, tuned>>

Server_with_bind_default ==
    /\ InState(builder, "ServerConfigBuilder", "WantsBindAddress")
    /\ \E port \in Ports :
          Bound(ServerWithBindDefault(builder, port),
                [op |-> "with_bind_default", port |-> port])
    /\ UNCHANGED <<dnsVars, certVars>>

Server_with_bind_config ==
    /\ InState(builder, "ServerConfigBuilder", "WantsBindAddress")
    /\ \E c \in IpBindConfig, port \in Ports :
          Bound(ServerWithBindConfig(builder, c, port),
                [op |-> "with_bind_config", config |-> c, port |-> port])
    /\ UNCHANGED <<dnsVars, certVars>>

Server_with_bind_address ==
    /\ InState(builder, "ServerConfigBuilder", "WantsBindAddress")
    /\ \E address \in BindAddresses :
          Bound(ServerWithBindAddress(builder, address),
                [op |-> "with_bind_address", address |-> address])
    /\ UNCHANGED <<dnsVars, certVars>>

Server_with_bind_address_v6 ==
    /\ InState(builder, "ServerConfigBuilder", "WantsBindAddress")
    /\ \E address \in BindAddressesV6, d \in Ipv6DualStackConfig :
          Bound(ServerWithBindAddressV6(builder, address, d),
                [op |-> "with_bind_address_v6", address |-> address, dual_stack_config |-> d])
    /\ UNCHANGED <<dnsVars, certVars>>

Server_with_certificate ==
    /\ InState(builder, "ServerConfigBuilder", "WantsCertificate")
    /\ \E certificate \in Certificates :
          LET r == ServerWithCertificate(builder, certificate)
          IN Credentialed(IF r.ok THEN r.val ELSE Panicked,
                          [op |-> "with_certificate", certificate |-> certificate],
                          IF r.ok THEN "Ok" ELSE "Panic")
    /\ UNCHANGED env
    /\ UNCHANGED <<dnsVars, certVars>>

Server_with_custom_tls ==
    /\ InState(builder, "ServerConfigBuilder", "WantsCertificate")
    /\ \E tls_config \in CustomTlsServerConfigs :
          Credentialed(ServerWithCustomTls(builder, tls_config),
                       [op |-> "with_custom_tls", tls_config |-> tls_config], "Ok")
    /\ UNCHANGED env
    /\ UNCHANGED <<dnsVars, certVars>>

Server_max_idle_timeout ==
    /\ InState(builder, "ServerConfigBuilder", "WantsTransportConfigServer")
    /\ \E idle_timeout \in IdleTimeoutArgs :
          LET r == ServerMaxIdleTimeout(builder, idle_timeout)
          IN /\ Tuned(IF r.ok THEN r.val ELSE ErrInvalidIdleTimeout,
                      "max_idle_timeout", idle_timeout,
                      IF r.ok THEN "Ok" ELSE r.err)
             /\ tuned' = IF r.ok THEN [tuned EXCEPT !.max_idle_timeout = Some(idle_timeout)]
                                 ELSE tuned
    /\ UNCHANGED <<dnsVars, certVars>>

Server_keep_alive_interval ==
    /\ InState(builder, "ServerConfigBuilder", "WantsTransportConfigServer")
    /\ \E interval \in KeepAliveArgs :
          /\ Tuned(ServerKeepAliveInterval(builder, interval),
                   "keep_alive_interval", interval, "Ok")
          /\ tuned' = [tuned EXCEPT !.keep_alive_interval = Some(interval)]
    /\ UNCHANGED <<dnsVars, certVars>>

Server_allow_migration ==
    /\ InState(builder, "ServerConfigBuilder", "WantsTransportConfigServer")
    /\ \E value \in BOOLEAN :
          /\ Tuned(ServerAllowMigration(builder, value), "allow_migration", None, "Ok")
          /\ tuned' = [tuned EXCEPT !.allow_migration = Some(value)]
    /\ UNCHANGED <<dnsVars, certVars>>

Server_build ==
    /\ InState(builder, "ServerConfigBuilder", "WantsTransportConfigServer")
    /\ Built(ServerBuild(builder))
    /\ UNCHANGED <<dnsVars, certVars>>

Client_with_bind_default ==
    /\ InState(builder, "ClientConfigBuilder", "WantsBindAddress")
    /\ Bound(ClientWithBindDefault(builder), [op |-> "with_bind_default"])
    /\ UNCHANGED <<dnsVars, certVars>>

Client_with_bind_config ==
    /\ InState(builder, "ClientConfigBuilder", "WantsBindAddress")
    /\ \E c \in IpBindConfig :
          Bound(ClientWithBindConfig(builder, c), [op |-> "with_bind_config", config |-> c])
    /\ UNCHANGED <<dnsVars, certVars>>

Client_with_bind_address ==
    /\ InState(builder, "ClientConfigBuilder", "WantsBindAddress")
    /\ \E address \in BindAddresses :
          Bound(ClientWithBindAddress(builder, address),
                [op |-> "with_bind_address", address |-> address])
    /\ UNCHANGED <<dnsVars, certVars>>

Client_with_bind_address_v6 ==
    /\ InState(builder, "ClientConfigBuilder", "WantsBindAddress")
    /\ \E address \in BindAddressesV6, d \in Ipv6DualStackConfig :
          Bound(ClientWithBindAddressV6(builder, address, d),
                [op |-> "with_bind_address_v6", address |-> address, dual_stack_config |-> d])
    /\ UNCHANGED <<dnsVars, certVars>>

Client_with_native_certs ==
    /\ InState(builder, "ClientConfigBuilder", "WantsRootStore")
    /\ \E load \in NativeLoads :
          /\ Credentialed(ClientWithNativeCerts(builder, env, load),
                          [op |-> "with_native_certs", load |-> load], "Ok")
          /\ env' = NativeCertStore(env, load).env
    /\ UNCHANGED <<dnsVars, certVars>>

Client_with_custom_tls ==
    /\ InState(builder, "ClientConfigBuilder", "WantsRootStore")
    /\ \E tls_config \in CustomTlsClientConfigs :
          Credentialed(ClientWithCustomTls(builder, tls_config),
                       [op |-> "with_custom_tls", tls_config |-> tls_config], "Ok")
    /\ UNCHANGED env
    /\ UNCHANGED <<dnsVars, certVars>>

Client_with_no_cert_validation ==
    /\ InState(builder, "ClientConfigBuilder", "WantsRootStore")
    /\ Credentialed(ClientWithNoCertValidation(builder), [op |-> "with_no_cert_validation"], "Ok")
    /\ UNCHANGED env
    /\ UNCHANGED <<dnsVars, certVars>>

Client_max_idle_timeout ==
    /\ InState(builder, "ClientConfigBuilder", "WantsTransportConfigClient")
    /\ \E idle_timeout \in IdleTimeoutArgs :
          LET r == ClientMaxIdleTimeout(builder, idle_timeout)
          IN /\ Tuned(IF r.ok THEN r.val ELSE ErrInvalidIdleTimeout,
                      "max_idle_timeout", idle_timeout,
                      IF r.ok THEN "Ok" ELSE r.err)
             /\ tuned' = IF r.ok THEN [tuned EXCEPT !.max_idle_timeout = Some(idle_timeout)]
                                 ELSE tuned
    /\ UNCHANGED <<dnsVars, certVars>>

Client_keep_alive_interval ==
    /\ InState(builder, "ClientConfigBuilder", "WantsTransportConfigClient")
    /\ \E interval \in KeepAliveArgs :
          /\ Tuned(ClientKeepAliveInterval(builder, interval),
                   "keep_alive_interval", interval, "Ok")
          /\ tuned' = [tuned EXCEPT !.keep_alive_interval = Some(interval)]
    /\ UNCHANGED <<dnsVars, certVars>>

Client_dns_resolver ==
    /\ InState(builder, "ClientConfigBuilder", "WantsTransportConfigClient")
    /\ \E dns_resolver \in DnsResolverArgs :
          /\ Tuned(ClientDnsResolver(builder, dns_resolver), "dns_resolver", None, "Ok")
          /\ tuned' = [tuned EXCEPT !.dns_resolver = Some(dns_resolver)]
    /\ UNCHANGED <<dnsVars, certVars>>

Client_enable_key_log ==
    /\ InState(builder, "ClientConfigBuilder", "WantsTransportConfigClient")
    /\ Tuned(ClientEnableKeyLog(builder), "enable_key_log", None, "Ok")
    /\ UNCHANGED tuned
    /\ UNCHANGED <<dnsVars, certVars>>

Client_build ==
    /\ InState(builder, "ClientConfigBuilder", "WantsTransportConfigClient")
    /\ Built(ClientBuild(builder))
    /\ UNCHANGED <<dnsVars, certVars>>

\* ClientConfig::default(): builder(), with_bind_default, with_native_certs, build.
ClientConfig_default ==
    /\ builder = ClientConfigBuilderDefault
    /\ \E load \in NativeLoads :
          /\ builder' = ClientConfigDefault(env, load)
          /\ env' = NativeCertStore(env, load).env
          /\ credOp' = Some([op |-> "with_native_certs", load |-> load])
    /\ ops' = [bind |-> 1, cred |-> 1, build |-> 1]
    /\ bindOp' = Some([op |-> "with_bind_default"])
    /\ last' = Last("ClientConfig::default", None, "Ok")
    /\ UNCHANGED <<called, tuned>>
    /\ UNCHANGED <<dnsVars, certVars>>

Next ==
    \/ Server_with_bind_default
    \/ Server_with_bind_config
    \/ Server_with_bind_address
    \/ Server_with_bind_address_v6
    \/ Server_with_certificate
    \/ Server_with_custom_tls
    \/ Server_max_idle_timeout
    \/ Server_keep_alive_interval
    \/ Server_allow_migration
    \/ Server_build
    \/ Client_with_bind_default
    \/ Client_with_bind_config
    \/ Client_with_bind_address
    \/ Client_with_bind_address_v6
    \/ Client_with_native_certs
    \/ Client_with_custom_tls
    \/ Client_with_no_cert_validation
    \/ Client_max_idle_timeout
    \/ Client_keep_alive_interval
    \/ Client_dns_resolver
    \/ Client_enable_key_log
    \/ Client_build
    \/ ClientConfig_default

Spec == Init /\ [][Next]_vars

(***************************************************************************)
(* TokioDnsResolver and the Resolve future                                 *)
(***************************************************************************)
MaxPolls == 3
MaxRequests == 2

Hosts == {"a.example", "b.example"}

SocketAddrOf(host, n) == [host |-> host, n |-> n]

\* Outcomes of tokio::net::lookup_host(host): an address sequence or an I/O error.
OsResults(host) ==
    {Ok(<< >>),
     Ok(<<SocketAddrOf(host, 1)>>),
     Ok(<<SocketAddrOf(host, 2), SocketAddrOf(host, 1)>>),
     Err("io")}

Pending == [kind |-> "Pending"]
Ready(v) == [kind |-> "Ready", val |-> v]
Panic == [kind |-> "Panic"]

\* The async block's value: Ok(lookup_host(host).await?.next())
LookupOutput_LastAddress(os) ==
    IF ~os.ok THEN os
    ELSE IF Len(os.val) = 0 THEN Ok(None) ELSE Ok(Some(os.val[Len(os.val)]))

LookupOutput(os) ==
    IF ~os.ok THEN os
    ELSE IF Len(os.val) = 0 THEN Ok(None) ELSE Ok(Some(Head(os.val)))

\* The future the closure of get_or_insert_with builds: not yet polled.
NewLookupFuture(host) == [host |-> host, lookup |-> 0, done |-> FALSE]

\* Option::get_or_insert_with
GetOrInsertWith_AlwaysInsert(f, new) == Some(new)

GetOrInsertWith(f, new) == IF f.some THEN f ELSE Some(new)

\* Future::poll of the boxed async block `f`, with the OS lookups `lks`.
\* `early` is the result the OS already has when the block starts its lookup
\* (None: the lookup is still running).  A block polled after it returned panics.
PollLookupFuture(f, lks, early) ==
    IF f.done
    THEN [fut |-> f, lookups |-> lks, out |-> Panic]
    ELSE LET started == f.lookup # 0
             lks2 == IF started THEN lks
                     ELSE Append(lks, [host |-> f.host, result |-> early])
             i == IF started THEN f.lookup ELSE Len(lks2)
             result == lks2[i].result
         IN IF result.some
            THEN [fut |-> [f EXCEPT !.lookup = i, !.done = TRUE], lookups |-> lks2,
                  out |-> Ready(LookupOutput(result.val))]
            ELSE [fut |-> [f EXCEPT !.lookup = i], lookups |-> lks2, out |-> Pending]

\* TokioDnsResolver::poll_resolve
PollResolve(f, lks, host, early) ==
    LET memo == GetOrInsertWith(f, NewLookupFuture(host))
        r == PollLookupFuture(memo.val, lks, early)
    IN [fut |-> Some(r.fut), lookups |-> r.lookups, out |-> r.out]

\* DnsResolverExt::resolve: the caller takes a Resolve future on the resolver.
Dns_resolve ==
    /\ ~handle.some
    /\ requests < MaxRequests
    /\ \E host \in Hosts :
          handle' = Some([resolver |-> "self", host |-> host, id |-> requests + 1])
    /\ requests' = requests + 1
    /\ UNCHANGED <<fut, lookups, polls>>
    /\ UNCHANGED <<buildVars, certVars>>

\* Resolve::poll: one poll of the handle, passed on to poll_resolve.  A panic
\* unwinds through the caller, which drops the handle.  MaxPolls bounds the
\* polls that return Pending; a poll that ends a request is always possible.
Dns_poll ==
    /\ handle.some
    /\ \E early \in {None} \cup {Some(os) : os \in OsResults(handle.val.host)} :
          LET r == PollResolve(fut, lookups, handle.val.host,
                               IF fut.some THEN None ELSE early)
          IN /\ Len(polls) < MaxPolls \/ r.out # Pending
             /\ fut' = r.fut
             /\ lookups' = r.lookups
             /\ polls' = Append(polls, [request |-> handle.val.id,
                                        host |-> handle.val.host, out |-> r.out])
             /\ handle' = IF r.out = Panic THEN None ELSE handle
    /\ UNCHANGED requests
    /\ UNCHANGED <<buildVars, certVars>>

\* The OS finishes a running lookup.
Dns_lookup_complete ==
    /\ \E i \in 1..Len(lookups) :
          /\ ~lookups[i].result.some
          /\ \E os \in OsResults(lookups[i].host) :
                lookups' = [lookups EXCEPT ![i].result = Some(os)]
    /\ UNCHANGED <<fut, handle, polls, requests>>
    /\ UNCHANGED <<buildVars, certVars>>

\* The caller drops the Resolve future (Resolve has no Drop of its own).
Dns_drop ==
    /\ handle.some
    /\ handle' = None
    /\ UNCHANGED <<fut, lookups, polls, requests>>
    /\ UNCHANGED <<buildVars, certVars>>

InitDnsSpec ==
    /\ builder = ClientConfigBuilderDefault
    /\ env = None
    /\ InitBuilder
    /\ InitDns
    /\ InitCert

NextDns ==
    \/ Dns_resolve
    \/ Dns_poll
    \/ Dns_lookup_complete
    \/ Dns_drop

SpecDns == InitDnsSpec /\ [][NextDns]_vars

\* The same, for a caller that keeps polling the handle it holds and an OS
\* that finishes every lookup it was given.
SpecDnsLive ==
    /\ InitDnsSpec
    /\ [][NextDns]_vars
    /\ WF_vars(Dns_poll)
    /\ WF_vars(Dns_lookup_complete)

(***************************************************************************)
(* native_cert_store, statement by statement, called from several threads  *)
(***************************************************************************)
\* remove_var_tmp, first statement: let value = env::var_os(key)
Cert_var_os(t) ==
    /\ pc[t] = "idle"
    /\ saved' = [saved EXCEPT ![t] = EnvVarOs(env)]
    /\ pc' = [pc EXCEPT ![t] = "read"]
    /\ UNCHANGED <<env, var_restore_guard, store, restores, env0>>
    /\ UNCHANGED <<builder, ops, bindOp, credOp, called, tuned, last>>
    /\ UNCHANGED dnsVars

\* remove_var_tmp, the rest: env::remove_var(key), then the guard is returned.
Cert_remove_var(t) ==
    /\ pc[t] = "read"
    /\ env' = EnvRemoveVar(env)
    /\ var_restore_guard' = [var_restore_guard EXCEPT ![t] = Some(VarRestoreGuard(saved[t]))]
    /\ pc' = [pc EXCEPT ![t] = "removed"]
    /\ UNCHANGED <<saved, store, restores, env0>>
    /\ UNCHANGED <<builder, ops, bindOp, credOp, called, tuned, last>>
    /\ UNCHANGED dnsVars

\* match rustls_native_certs::load_native_certs(): fill root_store, or not.
Cert_load(t) ==
    /\ pc[t] = "removed"
    /\ \E load \in NativeLoads : store' = [store EXCEPT ![t] = RootStoreOf(load)]
    /\ pc' = [pc EXCEPT ![t] = "loaded"]
    /\ UNCHANGED <<env, saved, var_restore_guard, restores, env0>>
    /\ UNCHANGED <<builder, ops, bindOp, credOp, called, tuned, last>>
    /\ UNCHANGED dnsVars

\* native_cert_store returns root_store: _var_restore_guard is dropped.
Cert_return(t) ==
    /\ pc[t] = "loaded"
    /\ env' = VarRestoreGuardDrop(var_restore_guard[t].val, env)
    /\ var_restore_guard' = [var_restore_guard EXCEPT ![t] = None]
    /\ restores' = [restores EXCEPT ![t] = @ + 1]
    /\ pc' = [pc EXCEPT ![t] = "returned"]
    /\ UNCHANGED <<saved, store, env0>>
    /\ UNCHANGED <<builder, ops, bindOp, credOp, called, tuned, last>>
    /\ UNCHANGED dnsVars

InitCertSpec ==
    /\ builder = ClientConfigBuilderDefault
    /\ env \in {None, Some("X")}
    /\ InitBuilder
    /\ InitDns
    /\ InitCert

NextCert ==
    \E t \in Threads :
        \/ Cert_var_os(t)
        \/ Cert_remove_var(t)
        \/ Cert_load(t)
        \/ Cert_return(t)

SpecCert == InitCertSpec /\ [][NextCert]_vars

(***************************************************************************)
(* The built Config and its quic_config_mut accessor                       *)
(***************************************************************************)
\* Transport configurations the caller may install through the accessor.
CallerTransportConfigs ==
    {TransportConfigDefault,
     [max_idle_timeout |-> None, keep_alive_interval |-> Some(D_10s)]}

\* ServerConfig::quic_config_mut: the caller gets &mut quinn::ServerConfig
\* and sets its transport configuration and its migration flag.
ServerQuicConfigMut_MovesPort(c, transport, migration) ==
    [c EXCEPT !.quic_config.transport = transport,
              !.quic_config.migration = migration,
              !.bind_address.port = 0]

ServerQuicConfigMut(c, transport, migration) ==
    [c EXCEPT !.quic_config.transport = transport,
              !.quic_config.migration = migration]

\* ClientConfig::quic_config_mut: the caller gets &mut quinn::ClientConfig
\* and sets its transport configuration.
ClientQuicConfigMut(c, transport) == [c EXCEPT !.quic_config.transport = transport]

Server_quic_config_mut ==
    /\ InState(builder, "ServerConfig", "Built")
    /\ \E transport \in CallerTransportConfigs, migration \in BOOLEAN :
          builder' = ServerQuicConfigMut(builder, transport, migration)
    /\ last' = Last("quic_config_mut", None, "Ok")
    /\ UNCHANGED <<env, ops, bindOp, credOp, called, tuned>>
    /\ UNCHANGED <<dnsVars, certVars>>

Client_quic_config_mut ==
    /\ InState(builder, "ClientConfig", "Built")
    /\ \E transport \in CallerTransportConfigs :
          builder' = ClientQuicConfigMut(builder, transport)
    /\ last' = Last("quic_config_mut", None, "Ok")
    /\ UNCHANGED <<env, ops, bindOp, credOp, called, tuned>>
    /\ UNCHANGED <<dnsVars, certVars>>

\* The builder chain, followed by the caller's use of the built Config.
NextConfig ==
    \/ Next
    \/ Server_quic_config_mut
    \/ Client_quic_config_mut

SpecConfig == Init /\ [][NextConfig]_vars

(***************************************************************************)
(* Properties                                                              *)
(***************************************************************************)
\* Position of a typestate in the construction sequence; 4: the chain ended
\* without a Config (a panic, or the Err of max_idle_timeout).
Rank(b) ==
    CASE b.state = "WantsBindAddress" -> 0
      [] b.state \in {"WantsCertificate", "WantsRootStore"} -> 1
      [] b.state \in {"WantsTransportConfigServer", "WantsTransportConfigClient"} -> 2
      [] b.state = "Built" -> 3
      [] OTHER -> 4

InTuning(b) == Rank(b) = 2
IsBuilt(b) == Rank(b) = 3
IsServer(b) == b.kind \in {"ServerConfigBuilder", "ServerConfig"}
IsClient(b) == b.kind \in {"ClientConfigBuilder", "ClientConfig"}

\* The transport parameters and the TLS configuration a tuning-stage builder
\* or a built Config carries.
TransportOf(b) == IF IsBuilt(b) THEN b.quic_config.transport ELSE b.transport_config
TlsOf(b) == IF IsBuilt(b) THEN b.quic_config.crypto ELSE b.tls_config

BindOps == {"with_bind_default", "with_bind_config", "with_bind_address", "with_bind_address_v6"}
CredOps == {"with_certificate", "with_custom_tls", "with_native_certs", "with_no_cert_validation"}
TuningOps == {"max_idle_timeout", "keep_alive_interval", "allow_migration",
              "dns_resolver", "enable_key_log"}

\* C1: for the server and the client builder the stage only moves forward,
\* one stage per operation: a builder past the credential stage (and a built
\* Config) has seen exactly one bind and one credential operation, build()
\* acts only on a tuning-stage builder, each stage is entered by an operation
\* of the stage before it, no operation returns to an earlier stage, and the
\* server and client tracks never interconvert.
C1_StageOrder ==
    /\ [](Rank(builder) \in {2, 3} => ops.bind = 1 /\ ops.cred = 1)
    /\ [](Rank(builder) = 1 => ops.bind = 1 /\ ops.cred = 0)
    /\ [](Rank(builder) = 0 => ops = NoOps)
    /\ [](IsBuilt(builder) <=> ops.build = 1)
    /\ [][last'.op # "ClientConfig::default" =>
            /\ Rank(builder) \in 0..2
            /\ Rank(builder') \in {Rank(builder), Rank(builder) + 1, 4}
            /\ IsServer(builder) => (IsServer(builder') \/ Rank(builder') = 4)
            /\ IsClient(builder) => (IsClient(builder') \/ Rank(builder') = 4)
            /\ last'.op \in BindOps <=> (Rank(builder) = 0 /\ Rank(builder') = 1)
            /\ last'.op \in CredOps <=> (Rank(builder) = 1 /\ Rank(builder') \in {2, 4})
            /\ last'.op \in TuningOps <=> (Rank(builder) = 2 /\ Rank(builder') \in {2, 4})
            /\ last'.op = "build" <=> (Rank(builder) = 2 /\ Rank(builder') = 3)]_vars

C1_Witness ==
    /\ builder.kind = "ServerConfig"
    /\ last.op = "build"
    /\ called = {"max_idle_timeout", "keep_alive_interval", "allow_migration"}

\* The table of section 3 of the specification: policy -> (address, dual stack).
BindPolicyTable(c) ==
    CASE c = "LocalV4" -> <<Ipv4Addr_LOCALHOST, "OsDefault">>
      [] c = "LocalV6" -> <<Ipv6Addr_LOCALHOST, "Deny">>
      [] c = "LocalDual" -> <<Ipv6Addr_LOCALHOST, "Allow">>
      [] c = "InAddrAnyV4" -> <<Ipv4Addr_UNSPECIFIED, "OsDefault">>
      [] c = "InAddrAnyV6" -> <<Ipv6Addr_UNSPECIFIED, "Deny">>
      [] c = "InAddrAnyDual" -> <<Ipv6Addr_UNSPECIFIED, "Allow">>

\* C2: for each of the six bind policies, into_ip and into_dual_stack_config
\* give exactly the (address, dual-stack policy) pair of the table.
C2_BindTable ==
    /\ Cardinality(IpBindConfig) = 6
    /\ \A c \in IpBindConfig :
          <<into_ip(c), into_dual_stack_config(c)>> = BindPolicyTable(c)
    /\ (bindOp.some /\ bindOp.val.op = "with_bind_config") =>
          <<into_ip(bindOp.val.config), into_dual_stack_config(bindOp.val.config)>>
             = BindPolicyTable(bindOp.val.config)

C2_Witness ==
    /\ bindOp.some
    /\ bindOp.val.op = "with_bind_config"
    /\ bindOp.val.config = "LocalDual"
    /\ Rank(builder) = 1
    /\ builder.bind_address.ip = Ipv6Addr_LOCALHOST
    /\ builder.dual_stack_config = "Allow"

\* C3: after the server's with_bind_config(c, p), the builder and, after any
\* credential and tuning steps, the built ServerConfig have bind address
\* (table address of c, p) and the table's dual-stack policy of c;
\* with_bind_default(p) gives what with_bind_config(InAddrAnyDual, p) gives:
\* (unspecified v6, p) with dual stack Allow.
C3_ServerBind ==
    (IsServer(builder) /\ Rank(builder) \in 1..3) =>
        /\ bindOp.val.op = "with_bind_config" =>
              /\ builder.bind_address.ip = BindPolicyTable(bindOp.val.config)[1]
              /\ builder.bind_address.port = bindOp.val.port
              /\ builder.dual_stack_config = BindPolicyTable(bindOp.val.config)[2]
        /\ bindOp.val.op = "with_bind_default" =>
              /\ builder.bind_address.ip = Ipv6Addr_UNSPECIFIED
              /\ builder.bind_address.port = bindOp.val.port
              /\ builder.dual_stack_config = "Allow"
              /\ builder.bind_address.ip = BindPolicyTable("InAddrAnyDual")[1]
              /\ builder.dual_stack_config = BindPolicyTable("InAddrAnyDual")[2]

C3_Witness ==
    /\ builder.kind = "ServerConfig"
    /\ bindOp.val.op = "with_bind_config"
    /\ bindOp.val.config = "LocalV4"
    /\ bindOp.val.port = 443
    /\ credOp.val.op = "with_certificate"
    /\ "keep_alive_interval" \in called

\* The root store native_cert_store returns for a load outcome.
RootsOf(load) == IF load.ok THEN {load.val[i] : i \in 1..Len(load.val)} ELSE {}

\* The client chain with_bind_default().with_native_certs().build() ran with
\* no tuning call, or ClientConfig::default() ran.
IsDefaultClientConfig ==
    /\ builder.kind = "ClientConfig"
    /\ bindOp.val.op = "with_bind_default"
    /\ credOp.val.op = "with_native_certs"
    /\ called = {}

\* The ClientConfig of that chain, all fields but the idle timeout.
DefaultClientConfigBut(idle) ==
    [kind |-> "ClientConfig", state |-> "Built",
     bind_address |-> [ip |-> Ipv6Addr_UNSPECIFIED, port |-> 0, flowinfo |-> 0, scope_id |-> 0],
     dual_stack_config |-> "Allow",
     quic_config |->
        [crypto |-> [root_store |-> RootsOf(credOp.val.load),
                     verifier |-> "WebPkiVerifier",
                     client_auth |-> "NoClientAuth",
                     alpn_protocols |-> <<WEBTRANSPORT_ALPN>>,
                     key_log |-> "NoKeyLog"],
         transport |-> [max_idle_timeout |-> idle, keep_alive_interval |-> None]],
     dns_resolver |-> [type |-> "TokioDnsResolver", fut |-> None]]

\* C4 as claimed: that client Config, and the one of ClientConfig::default(),
\* has bind address (unspecified v6, 0), dual stack Allow, the Tokio resolver
\* and an unset idle timeout.
C4_Original == IsDefaultClientConfig => builder = DefaultClientConfigBut(None)

\* C4 as amended: the same, except that the idle timeout is the one of
\* quinn's TransportConfig::default(), 10 s, not unset.
C4_DefaultClient ==
    IsDefaultClientConfig =>
        /\ builder = DefaultClientConfigBut(Some(Millis(0, 0, 10000)))
        /\ builder.quic_config.transport.max_idle_timeout # None

C4_Witness ==
    /\ IsDefaultClientConfig
    /\ last.op = "ClientConfig::default"
    /\ credOp.val.load = Err("io")

\* A duration whose whole milliseconds fit quinn's VarInt: below 2^62.
WithinVarInt(d) == d.millis.e60 <= 3

\* The step is a max_idle_timeout(Some(d)) call on a tuning-stage builder.
IsMaxIdleTimeoutSome ==
    /\ InTuning(builder)
    /\ last'.op = "max_idle_timeout"
    /\ last'.arg.some

\* Every field of the builder but the idle timeout is as before the step.
OnlyIdleTimeoutChanged ==
    [builder' EXCEPT !.transport_config.max_idle_timeout =
                        builder.transport_config.max_idle_timeout] = builder

\* C5 as claimed: max_idle_timeout(Some(d)) succeeds exactly when d is within
\* the encoding's range, the idle-timeout parameter then equals d and no other
\* field changes; beyond the range it fails with InvalidIdleTimeout and leaves
\* no builder with a modified idle timeout.
C5_Original ==
    [][IsMaxIdleTimeoutSome =>
          IF WithinVarInt(last'.arg.val)
          THEN /\ last'.result = "Ok"
               /\ InTuning(builder')
               /\ builder'.transport_config.max_idle_timeout.some
               /\ Duration(builder'.transport_config.max_idle_timeout.val, 0) = last'.arg.val
               /\ OnlyIdleTimeoutChanged
          ELSE /\ last'.result = "InvalidIdleTimeout"
               /\ ~InTuning(builder')]_vars

\* C5 as amended: the same, except that the idle-timeout parameter equals d
\* cut to whole milliseconds (Duration::as_millis), not d itself.
C5_MaxIdleTimeout ==
    [][IsMaxIdleTimeoutSome =>
          IF WithinVarInt(last'.arg.val)
          THEN /\ last'.result = "Ok"
               /\ InTuning(builder')
               /\ builder'.transport_config.max_idle_timeout = Some(last'.arg.val.millis)
               /\ OnlyIdleTimeoutChanged
          ELSE /\ last'.result = "InvalidIdleTimeout"
               /\ ~InTuning(builder')]_vars

C5_Witness ==
    /\ InTuning(builder)
    /\ last.op = "max_idle_timeout"
    /\ last.arg = Some(D_1500us)
    /\ last.result = "Ok"
    /\ builder.transport_config.max_idle_timeout = Some(Millis(0, 0, 1))
    /\ builder.transport_config.keep_alive_interval = Some(D_10s)

\* The last step was a max_idle_timeout call with a duration out of range.
IdleTimeoutCallFailed ==
    /\ last.op = "max_idle_timeout"
    /\ last.arg.some
    /\ ~WithinVarInt(last.arg.val)

\* C6 as claimed: after the failed call the caller still holds the builder,
\* in the tuning stage, and can call max_idle_timeout again or build().
C6_Original ==
    IdleTimeoutCallFailed =>
        /\ last.result = "InvalidIdleTimeout"
        /\ InTuning(builder)
        /\ ENABLED Next

\* C6 as amended: the failed call consumes the builder: the caller holds only
\* the InvalidIdleTimeout error, and no builder operation (a retry, another
\* tuning call, build()) is applicable any more.
C6_FailedCallConsumes ==
    IdleTimeoutCallFailed =>
        /\ last.result = "InvalidIdleTimeout"
        /\ builder = ErrInvalidIdleTimeout
        /\ ~ENABLED Next

C6_Witness ==
    /\ IdleTimeoutCallFailed
    /\ builder = ErrInvalidIdleTimeout
    /\ "keep_alive_interval" \in called

\* The Config build() gives for tuning-stage builder b.
BuildOf(b) == IF IsServer(b) THEN ServerBuild(b) ELSE ClientBuild(b)

\* b after max_idle_timeout(None), which cannot fail.
AfterMaxIdleTimeoutNone(b) ==
    IF IsServer(b) THEN ServerMaxIdleTimeout(b, None).val ELSE ClientMaxIdleTimeout(b, None).val

\* C7 as claimed: a builder that never called max_idle_timeout builds the
\* configuration it builds after max_idle_timeout(None): no idle timeout.
C7_Original ==
    /\ (InTuning(builder) /\ last.op = "max_idle_timeout" /\ last.arg = None) =>
          TransportOf(BuildOf(builder)).max_idle_timeout = None
    /\ (InTuning(builder) /\ "max_idle_timeout" \notin called) =>
          /\ BuildOf(AfterMaxIdleTimeoutNone(builder)) = BuildOf(builder)
          /\ TransportOf(BuildOf(builder)).max_idle_timeout = None
    /\ (IsBuilt(builder) /\ "max_idle_timeout" \notin called) =>
          TransportOf(builder).max_idle_timeout = None

\* C7 as amended: after max_idle_timeout(None) the built configuration has
\* no idle timeout; a builder that never called max_idle_timeout builds a
\* configuration with the idle timeout of quinn's TransportConfig::default(),
\* 10 s, so the two differ, in the idle timeout only.
C7_NoneVersusDefault ==
    /\ (InTuning(builder) /\ last.op = "max_idle_timeout" /\ last.arg = None) =>
          TransportOf(BuildOf(builder)).max_idle_timeout = None
    /\ (InTuning(builder) /\ "max_idle_timeout" \notin called) =>
          /\ BuildOf(AfterMaxIdleTimeoutNone(builder)) # BuildOf(builder)
          /\ TransportOf(BuildOf(AfterMaxIdleTimeoutNone(builder))).max_idle_timeout = None
          /\ TransportOf(BuildOf(builder)).max_idle_timeout = Some(Millis(0, 0, 10000))
          /\ BuildOf(AfterMaxIdleTimeoutNone(builder)) =
                [BuildOf(builder) EXCEPT !.quic_config.transport.max_idle_timeout = None]
    /\ (IsBuilt(builder) /\ "max_idle_timeout" \notin called) =>
          TransportOf(builder).max_idle_timeout = Some(Millis(0, 0, 10000))

C7_Witness ==
    /\ InTuning(builder)
    /\ IsServer(builder)
    /\ last.op = "max_idle_timeout"
    /\ last.arg = None
    /\ builder.transport_config.max_idle_timeout = None
    /\ called = {"max_idle_timeout"}

NoLookupComplete == \A i \in 1..Len(lookups) : ~lookups[i].result.some

\* Every poll made so far is a poll of the first request on the resolver.
OneRequestPolled == \A k \in 1..Len(polls) : polls[k].request = 1

\* C9: for one outstanding request on a default resolver, the polls made
\* before the lookup completes start exactly one OS lookup, for the request's
\* host: the resolver memoizes that one in-flight lookup and every poll
\* observes Pending.
C9_OneLookup ==
    (Len(polls) >= 1 /\ OneRequestPolled /\ NoLookupComplete) =>
        /\ Len(lookups) = 1
        /\ lookups[1].host = polls[1].host
        /\ fut = Some([host |-> polls[1].host, lookup |-> 1, done |-> FALSE])
        /\ \A k \in 1..Len(polls) : polls[k].out = Pending

C9_Witness ==
    /\ Len(polls) = 3
    /\ OneRequestPolled
    /\ NoLookupComplete
    /\ Len(lookups) = 1
    /\ \A k \in 1..Len(polls) : polls[k].out = Pending

\* C10 as claimed: once a poll returned Ready, every further poll of the
\* resolver returns that same result, and no second lookup is started.
C10_Original ==
    /\ \A j \in 1..Len(polls) : \A k \in (j + 1)..Len(polls) :
          polls[j].out.kind = "Ready" => polls[k].out = polls[j].out
    /\ (\E j \in 1..Len(polls) : polls[j].out.kind = "Ready") => Len(lookups) = 1

\* The caller discarded the handle of request r while it was pending: r is
\* the latest request, it was polled, no poll of it returned Ready or
\* panicked, and the caller holds no handle any more.
DroppedWhilePending(r) ==
    /\ requests = r
    /\ ~handle.some
    /\ \E k \in 1..Len(polls) : polls[k].request = r
    /\ \A k \in 1..Len(polls) : polls[k].request = r => polls[k].out = Pending

\* C11 as claimed: once the caller has discarded a pending Resolve handle, the
\* resolver holds nothing of the discarded request: its memoized in-flight
\* lookup is released.
C11_Original == (requests >= 1 /\ DroppedWhilePending(requests)) => fut = None

\* Thread t is the only caller of native_cert_store: no other thread has
\* entered it.
SingleCaller(t) == \A u \in Threads \ {t} : pc[u] = "idle"

\* C12: with a single caller, for the variable initially set (to X) or absent
\* and for every outcome of the native load (certificates, an empty store, a
\* failure), the variable is absent while the load runs, is in exactly its
\* initial state once native_cert_store has returned, and the guard's drop
\* ran exactly once per call (and not before the return).
C12_ScopedRestoration ==
    \A t \in Threads :
        SingleCaller(t) =>
            /\ pc[t] \in {"removed", "loaded"} =>
                  /\ env = None
                  /\ var_restore_guard[t] = Some(VarRestoreGuard(env0))
            /\ pc[t] = "returned" =>
                  /\ env = env0
                  /\ \A load \in NativeLoads : env = NativeCertStore(env0, load).env
                  /\ var_restore_guard[t] = None
            /\ restores[t] = (IF pc[t] = "returned" THEN 1 ELSE 0)

C12_Witness ==
    /\ pc["t1"] = "returned"
    /\ SingleCaller("t1")
    /\ env0 = Some("X")
    /\ env = Some("X")
    /\ store["t1"] = {}
    /\ restores["t1"] = 1

\* The step is a with_native_certs call (on a client builder that is bound).
IsWithNativeCerts == last'.op = "with_native_certs"

\* C13: with_native_certs never fails.  Whatever the native load gives, the
\* call returns a builder in the tuning stage with the bind address and the
\* dual-stack policy it had; when the load failed, no error is raised and the
\* trust store of the TLS configuration is empty (otherwise it holds the
\* loaded anchors).
C13_NativeCertsBestEffort ==
    [][IsWithNativeCerts =>
          /\ last'.result = "Ok"
          /\ InState(builder, "ClientConfigBuilder", "WantsRootStore")
          /\ InState(builder', "ClientConfigBuilder", "WantsTransportConfigClient")
          /\ builder'.bind_address = builder.bind_address
          /\ builder'.dual_stack_config = builder.dual_stack_config
          /\ ~credOp'.val.load.ok => builder'.tls_config.root_store = {}
          /\ builder'.tls_config.root_store = RootStoreOf(credOp'.val.load)]_vars

C13_Witness ==
    /\ last.op = "with_native_certs"
    /\ credOp.val.load = Err("io")
    /\ InState(builder, "ClientConfigBuilder", "WantsTransportConfigClient")
    /\ builder.tls_config.root_store = {}
    /\ builder.bind_address.ip = Ipv4Addr_LOCALHOST
    /\ builder.dual_stack_config = "OsDefault"

\* The step is a credential operation that returned a builder.
IsCredentialStep == last'.op \in CredOps /\ last'.result = "Ok"

\* C14: every credential operation (server: with_certificate,
\* with_custom_tls; client: with_native_certs, with_custom_tls,
\* with_no_cert_validation) enters the tuning stage with the same defaults:
\* the idle timeout is not overridden (the transport parameters are the
\* engine's TransportConfig::default()), there is no keep-alive interval,
\* migration is allowed (server), the resolver is the default Tokio one
\* (client), and no tuning call is recorded.
C14_CredentialDefaults ==
    [][IsCredentialStep =>
          /\ InTuning(builder')
          /\ builder'.transport_config = TransportConfigDefault
          /\ builder'.transport_config.keep_alive_interval = None
          /\ IsServer(builder') => builder'.migration = TRUE
          /\ IsClient(builder') => builder'.dns_resolver = TokioDnsResolverDefault
          /\ tuned' = NotTuned]_vars

C14_Witness ==
    /\ last.op = "with_no_cert_validation"
    /\ InTuning(builder)
    /\ builder.transport_config = TransportConfigDefault
    /\ builder.dns_resolver = TokioDnsResolverDefault

\* What the tuning history says the Config holds: the value stored by the
\* last successful call of each tuning operation, or the default when the
\* operation was never called.
ExpectedIdleTimeout ==
    IF ~tuned.max_idle_timeout.some THEN TransportConfigDefault.max_idle_timeout
    ELSE IF tuned.max_idle_timeout.val.some
         THEN Some(as_millis(tuned.max_idle_timeout.val.val))
         ELSE None

ExpectedKeepAlive ==
    IF tuned.keep_alive_interval.some THEN tuned.keep_alive_interval.val ELSE None

ExpectedMigration ==
    IF tuned.allow_migration.some THEN tuned.allow_migration.val ELSE TRUE

ExpectedDnsResolver ==
    IF tuned.dns_resolver.some THEN tuned.dns_resolver.val ELSE TokioDnsResolverDefault

\* C15: after any sequence of tuning calls, build() gives a Config whose bind
\* address and dual-stack policy are those fixed at the bind step (no later
\* step changes them), whose idle timeout and keep-alive interval are those
\* set by the last successful max_idle_timeout call and the last
\* keep_alive_interval call (the defaults if none), whose migration flag
\* (server) is the argument of the last allow_migration call (true if none),
\* and whose resolver (client) is the one of the last dns_resolver call (the
\* default if none); build() itself changes none of them.
C15_BuildFreezes ==
    /\ [](IsBuilt(builder) =>
            /\ builder.quic_config.transport.max_idle_timeout = ExpectedIdleTimeout
            /\ builder.quic_config.transport.keep_alive_interval = ExpectedKeepAlive
            /\ IsServer(builder) => builder.quic_config.migration = ExpectedMigration
            /\ IsClient(builder) => builder.dns_resolver = ExpectedDnsResolver)
    /\ [][(Rank(builder) \in {1, 2} /\ Rank(builder') \in {1, 2, 3}) =>
            /\ builder'.bind_address = builder.bind_address
            /\ builder'.dual_stack_config = builder.dual_stack_config]_vars
    /\ [][last'.op = "build" =>
            /\ TransportOf(builder') = TransportOf(builder)
            /\ TlsOf(builder') = TlsOf(builder)
            /\ UNCHANGED tuned]_vars

C15_Witness ==
    /\ builder.kind = "ClientConfig"
    /\ last.op = "build"
    /\ tuned.max_idle_timeout = Some(Some(D_VarIntMax))
    /\ tuned.keep_alive_interval = Some(Some(D_1500us))
    /\ tuned.dns_resolver = Some([type |-> "CustomDnsResolver"])
    /\ builder.dns_resolver = [type |-> "CustomDnsResolver"]
    /\ builder.quic_config.transport.keep_alive_interval = Some(D_1500us)
    /\ bindOp.val.op = "with_bind_address"

\* The client's TLS configuration was constructed by this module
\* (build_tls_config), not passed in by the caller through with_custom_tls.
TlsBuiltHere == IsClient(builder) /\ Rank(builder) \in {2, 3} /\ credOp.val.op # "with_custom_tls"

\* C16: certificate verification is disabled only by explicit opt-in.  In a
\* TLS configuration constructed here the accept-every-certificate verifier
\* (NoServerVerification) is installed if and only if the credential
\* operation was with_no_cert_validation; with_native_certs (and
\* ClientConfig::default()) leaves the WebPKI verifier; and no tuning
\* operation or build() installs or removes a verifier, whichever credential
\* operation ran.
C16_VerifierOptIn ==
    /\ [](TlsBuiltHere =>
            /\ TlsOf(builder).verifier \in {"WebPkiVerifier", "NoServerVerification"}
            /\ TlsOf(builder).verifier = "NoServerVerification"
                  <=> credOp.val.op = "with_no_cert_validation"
            /\ credOp.val.op = "with_native_certs" => TlsOf(builder).verifier = "WebPkiVerifier")
    /\ [][(IsClient(builder) /\ InTuning(builder) /\ Rank(builder') \in {2, 3}) =>
            TlsOf(builder').verifier = TlsOf(builder).verifier]_vars

C16_Witness ==
    /\ builder.kind = "ClientConfig"
    /\ credOp.val.op = "with_no_cert_validation"
    /\ called = {"max_idle_timeout", "keep_alive_interval", "dns_resolver", "enable_key_log"}
    /\ builder.quic_config.crypto.verifier = "NoServerVerification"
    /\ builder.quic_config.crypto.key_log = "KeyLogFile"

\* The three outcomes of a resolution for a request of `host`.
ResolveOutcomes(host) ==
    {Ok(None), Err("io")} \cup {Ok(Some(SocketAddrOf(h, n))) : h \in Hosts, n \in 1..2}

\* Some poll of request r returned Ready with one of the three outcomes.
ReadyFor(r) ==
    \E k \in 1..Len(polls) :
        /\ polls[k].request = r
        /\ polls[k].out.kind = "Ready"
        /\ polls[k].out.val \in ResolveOutcomes(polls[k].host)

\* The caller holds the handle of request r.
Holds(r) == handle.some /\ handle.val.id = r

\* The caller gave up request r itself: it dropped the handle, no poll of r
\* panicked.
GaveUp(r) ==
    /\ ~Holds(r)
    /\ requests >= r
    /\ \A k \in 1..Len(polls) : polls[k].request = r => polls[k].out # Panic

\* C17 as claimed: for every request, if the OS lookup eventually completes
\* and the caller keeps polling the handle, some poll eventually returns Ready
\* with a socket address, no address, or an I/O error; and a poll returns
\* Pending only while the lookup is incomplete.
C17_Original ==
    /\ \A r \in 1..MaxRequests : Holds(r) ~> (ReadyFor(r) \/ GaveUp(r))
    /\ [][(Len(polls') = Len(polls) + 1 /\ polls'[Len(polls')].out = Pending) =>
            ~lookups'[fut'.val.lookup].result.some]_vars

\* Every thread has returned from native_cert_store.
AllReturned == \A t \in Threads : pc[t] = "returned"

\* Thread t read the variable while another call had it removed: what it
\* saved is not what the variable held before the calls.
ReadInsideOtherCall(t) == saved[t] # env0

\* C18: native_cert_store does not serialize its callers: the read, clear
\* and restore steps of two calls interleave freely.  When both calls have
\* returned the variable is either as it was or absent; it differs
\* from its initial state only when it was set before the calls and one call
\* read it while the other had it removed, and then it is absent (the state
\* C18_Witness reaches: the scoped-restoration guarantee is lost).
C18_NoSerialization ==
    /\ AllReturned =>
          /\ env \in {env0, None}
          /\ env # env0 =>
                /\ env0 = Some("X")
                /\ env = None
                /\ \E t \in Threads : ReadInsideOtherCall(t)
    /\ \A t \in Threads : pc[t] \in {"read", "removed", "loaded", "returned"} =>
          saved[t] \in {env0, None}

C18_Witness ==
    /\ AllReturned
    /\ env0 = Some("X")
    /\ env = None
    /\ restores = [t \in Threads |-> 1]

\* The host whose lookup produced the outcome of poll k: the host of the
\* lookup future the resolver held when the poll returned.
AnsweredFor(k) == polls[k].out.val.val.val.host

\* C19 as claimed: whatever requests were made on the resolver before
\* (dropped while pending, or completed), a request for host h is answered
\* with the outcome of a lookup of h: the lookup the resolver drives for the
\* request the caller holds is a lookup of that request's host, and a
\* returned address is an address of that host.
C19_Original ==
    /\ (handle.some /\ fut.some /\
          \E k \in 1..Len(polls) : polls[k].request = handle.val.id) =>
              fut.val.host = handle.val.host
    /\ \A k \in 1..Len(polls) :
          (/\ polls[k].out.kind = "Ready"
           /\ polls[k].out.val.ok
           /\ polls[k].out.val.val.some) => AnsweredFor(k) = polls[k].host

\* The tuning operations on builder b, server or client.  The third one is
\* allow_migration for the server and dns_resolver for the client.
ValidIdleTimeoutArgs == {a \in IdleTimeoutArgs : ConvertIdleTimeout(a).ok}

SetIdle(b, a) ==
    IF IsServer(b) THEN ServerMaxIdleTimeout(b, a).val ELSE ClientMaxIdleTimeout(b, a).val

SetKeepAlive(b, k) ==
    IF IsServer(b) THEN ServerKeepAliveInterval(b, k) ELSE ClientKeepAliveInterval(b, k)

ThirdArgs(b) == IF IsServer(b) THEN BOOLEAN ELSE DnsResolverArgs

SetThird(b, x) ==
    IF IsServer(b) THEN ServerAllowMigration(b, x) ELSE ClientDnsResolver(b, x)

\* The six orders of the three operations give the same built Config.
AllOrdersAgree(b, a, k, x) ==
    LET c == BuildOf(SetThird(SetKeepAlive(SetIdle(b, a), k), x))
    IN /\ BuildOf(SetKeepAlive(SetThird(SetIdle(b, a), x), k)) = c
       /\ BuildOf(SetThird(SetIdle(SetKeepAlive(b, k), a), x)) = c
       /\ BuildOf(SetIdle(SetThird(SetKeepAlive(b, k), x), a)) = c
       /\ BuildOf(SetKeepAlive(SetIdle(SetThird(b, x), a), k)) = c
       /\ BuildOf(SetIdle(SetKeepAlive(SetThird(b, x), k), a)) = c

\* A second call of an operation leaves only the second value.
LastWriteWins(b) ==
    /\ \A a \in ValidIdleTimeoutArgs, a2 \in ValidIdleTimeoutArgs :
          BuildOf(SetIdle(SetIdle(b, a), a2)) = BuildOf(SetIdle(b, a2))
    /\ \A k \in KeepAliveArgs, k2 \in KeepAliveArgs :
          BuildOf(SetKeepAlive(SetKeepAlive(b, k), k2)) = BuildOf(SetKeepAlive(b, k2))
    /\ \A x \in ThirdArgs(b), x2 \in ThirdArgs(b) :
          BuildOf(SetThird(SetThird(b, x), x2)) = BuildOf(SetThird(b, x2))

\* C20: for every builder in the tuning stage, max_idle_timeout (with a
\* valid value), keep_alive_interval and allow_migration (server) or
\* dns_resolver (client) applied in any order give the same built Config,
\* and calling one of them twice leaves only the second value.
C20_TuningCommutes ==
    InTuning(builder) =>
        /\ \A a \in ValidIdleTimeoutArgs, k \in KeepAliveArgs, x \in ThirdArgs(builder) :
              AllOrdersAgree(builder, a, k, x)
        /\ LastWriteWins(builder)

C20_Witness ==
    /\ InState(builder, "ServerConfigBuilder", "WantsTransportConfigServer")
    /\ called = {"max_idle_timeout", "keep_alive_interval", "allow_migration"}
    /\ last.op = "max_idle_timeout"
    /\ tuned = [max_idle_timeout |-> Some(None), keep_alive_interval |-> Some(Some(D_10s)),
                allow_migration |-> Some(FALSE), dns_resolver |-> None]
    /\ builder.transport_config = [max_idle_timeout |-> None, keep_alive_interval |-> Some(D_10s)]
    /\ builder.migration = FALSE

\* The builder after the step, with the one named field set back to what it
\* was before the step, is the builder before the step.
OnlyKeepAliveChanged ==
    [builder' EXCEPT !.transport_config.keep_alive_interval =
                        builder.transport_config.keep_alive_interval] = builder

OnlyMigrationChanged == [builder' EXCEPT !.migration = builder.migration] = builder

OnlyDnsResolverChanged == [builder' EXCEPT !.dns_resolver = builder.dns_resolver] = builder

OnlyKeyLogChanged ==
    [builder' EXCEPT !.tls_config.key_log = builder.tls_config.key_log] = builder

\* C21: once set by the bind operation, the bind address and the dual-stack
\* policy never change: every credential operation, every tuning operation
\* and build() that returns a builder or a Config carries both over, and each
\* tuning operation changes its own parameter only.
C21_Frame ==
    [][/\ (Rank(builder) \in {1, 2} /\ Rank(builder') \in {2, 3}) =>
             /\ last'.op \in CredOps \cup TuningOps \cup {"build"}
             /\ builder'.bind_address = builder.bind_address
             /\ builder'.dual_stack_config = builder.dual_stack_config
       /\ (InTuning(builder) /\ InTuning(builder')) =>
             /\ last'.op = "max_idle_timeout" => OnlyIdleTimeoutChanged
             /\ last'.op = "keep_alive_interval" => OnlyKeepAliveChanged
             /\ last'.op = "allow_migration" => OnlyMigrationChanged
             /\ last'.op = "dns_resolver" => OnlyDnsResolverChanged
             /\ last'.op = "enable_key_log" => OnlyKeyLogChanged]_vars

C21_Witness ==
    /\ builder.kind = "ServerConfig"
    /\ bindOp.val.op = "with_bind_address_v6"
    /\ bindOp.val.dual_stack_config = "Deny"
    /\ builder.dual_stack_config = "Deny"
    /\ builder.bind_address = bindOp.val.address
    /\ builder.quic_config.migration = FALSE
    /\ called = {"max_idle_timeout", "keep_alive_interval", "allow_migration"}

\* C22: for the server and the client builder, with_bind_address(addr)
\* stores addr with dual-stack policy OsDefault whatever the address family
\* (an IPv6 address included), and with_bind_address_v6(addr, policy) stores
\* addr with exactly the policy passed.
C22_BindAddress ==
    (Rank(builder) = 1 /\ bindOp.some) =>
        /\ bindOp.val.op = "with_bind_address" =>
              /\ builder.bind_address = bindOp.val.address
              /\ builder.dual_stack_config = "OsDefault"
        /\ bindOp.val.op = "with_bind_address_v6" =>
              /\ builder.bind_address = bindOp.val.address
              /\ builder.dual_stack_config = bindOp.val.dual_stack_config

C22_Witness ==
    /\ InState(builder, "ClientConfigBuilder", "WantsRootStore")
    /\ bindOp.val.op = "with_bind_address"
    /\ bindOp.val.address.ip = Ipv6Addr_LOCALHOST
    /\ builder.bind_address = SocketAddrNew(Ipv6Addr_LOCALHOST, 443)
    /\ builder.dual_stack_config = "OsDefault"

\* The step is a poll that returned Ready.
PollReturnedReady ==
    /\ Len(polls') = Len(polls) + 1
    /\ polls'[Len(polls')].out.kind = "Ready"

\* The result of the OS lookup the resolver's future has driven.
DrivenLookupResult == lookups'[fut'.val.lookup].result

\* C23: the result a poll of the default resolver returns on completion is
\* determined by the result of the OS lookup it drove: the first address of
\* the sequence when there is one, no address (None) when the sequence is
\* empty, and the I/O error when the lookup failed.
C23_FirstAddress ==
    [][PollReturnedReady =>
          /\ DrivenLookupResult.some
          /\ LET os == DrivenLookupResult.val
                 out == polls'[Len(polls')].out.val
             IN /\ (os.ok /\ os.val # << >>) => out = Ok(Some(os.val[1]))
                /\ (os.ok /\ os.val = << >>) => out = Ok(None)
                /\ ~os.ok => out = Err(os.err)]_vars

C23_Witness ==
    /\ Len(polls) = 2
    /\ polls[1].out = Pending
    /\ polls[2].out = Ready(Ok(Some(SocketAddrOf(polls[2].host, 2))))
    /\ lookups[1].result =
          Some(Ok(<<SocketAddrOf(polls[2].host, 2), SocketAddrOf(polls[2].host, 1)>>))

\* C24: the built Config is terminal.  No builder operation is applicable to
\* it; the only step that modifies it is quic_config_mut, which acts on a
\* built Config only, keeps it a Config of the same kind and leaves the bind
\* address, the dual-stack policy and (client) the DNS resolver unchanged.
C24_ConfigTerminal ==
    /\ [](IsBuilt(builder) => ~ENABLED Next)
    /\ [](last.op = "quic_config_mut" => IsBuilt(builder))
    /\ [][IsBuilt(builder) =>
            /\ IsBuilt(builder')
            /\ builder'.kind = builder.kind
            /\ builder' # builder => last'.op = "quic_config_mut"
            /\ builder'.bind_address = builder.bind_address
            /\ builder'.dual_stack_config = builder.dual_stack_config
            /\ IsClient(builder) => builder'.dns_resolver = builder.dns_resolver
            /\ [builder' EXCEPT !.quic_config = builder.quic_config] = builder]_vars

C24_Witness ==
    /\ builder.kind = "ClientConfig"
    /\ last.op = "quic_config_mut"
    /\ tuned.max_idle_timeout = Some(Some(D_1500us))
    /\ builder.quic_config.transport =
          [max_idle_timeout |-> None, keep_alive_interval |-> Some(D_10s)]
    /\ builder.dns_resolver = [type |-> "CustomDnsResolver"]

\* The step is a with_certificate call.
IsWithCertificate == last'.op = "with_certificate"

\* C25: with_certificate given a certificate chain / private key pair that
\* rustls rejects panics at the credential step: the caller gets neither an
\* error value nor a builder, and nothing can follow; given a valid pair it
\* always returns the builder of the tuning stage, with the pair in its TLS
\* configuration.
C25_CertificatePanics ==
    /\ [][IsWithCertificate =>
            IF credOp'.val.certificate.key_ok
            THEN /\ last'.result = "Ok"
                 /\ InState(builder', "ServerConfigBuilder", "WantsTransportConfigServer")
                 /\ builder'.tls_config.cert_chain = credOp'.val.certificate.certificates
                 /\ builder'.tls_config.private_key = credOp'.val.certificate.private_key
            ELSE /\ last'.result = "Panic"
                 /\ builder' = Panicked
                 /\ builder' # ErrInvalidIdleTimeout
                 /\ ~InTuning(builder')]_vars
    /\ [](builder = Panicked =>
            /\ last.op = "with_certificate"
            /\ ~credOp.val.certificate.key_ok
            /\ ~ENABLED Next)

C25_Witness ==
    /\ builder = Panicked
    /\ last = Last("with_certificate", None, "Panic")
    /\ ~credOp.val.certificate.key_ok
    /\ bindOp.val.op = "with_bind_default"

\* Thread t's native-certificate load runs in this step.
LoadRuns(t) == pc[t] = "removed" /\ pc'[t] = "loaded"

\* Thread t's guard is dropped (the restore) in this step.
RestoreRuns(t) == restores'[t] = restores[t] + 1

\* C26: during a single, non-concurrent native_cert_store call the variable
\* is absent for the whole load, whatever its initial state: the load starts
\* only once the variable has been read and cleared, the variable is absent
\* when the load starts and when it ends, and the restore runs only after
\* the load has finished, and then puts the initial state back.
C26_AbsentDuringLoad ==
    [][\A t \in Threads :
          SingleCaller(t) =>
              /\ pc'[t] = "loaded" => pc[t] \in {"removed", "loaded"}
              /\ pc'[t] = "removed" => (env' = None /\ saved[t] = env0)
              /\ LoadRuns(t) =>
                    /\ env = None
                    /\ env' = None
                    /\ restores[t] = 0
                    /\ var_restore_guard[t] = Some(VarRestoreGuard(env0))
              /\ RestoreRuns(t) =>
                    /\ pc[t] = "loaded"
                    /\ pc'[t] = "returned"
                    /\ env = None
                    /\ env' = env0]_vars

C26_Witness ==
    /\ pc["t2"] = "loaded"
    /\ SingleCaller("t2")
    /\ env0 = Some("X")
    /\ env = None
    /\ store["t2"] = {"ca1", "ca2"}
    /\ var_restore_guard["t2"] = Some(VarRestoreGuard(Some("X")))

====
